---------------------------- MODULE Spec2Model ----------------------------
(***************************************************************************)
(* Model of flax.nnx State (src/flax/nnx/nnx/state.py): a nested,          *)
(* path-addressable container over Python dicts, with flatten/unflatten,   *)
(* predicate partitioning (split/filter) and merge/union/difference.       *)
(*                                                                         *)
(* Python dict objects live in a heap.  A State object is a wrapper whose  *)
(* _mapping points at one dict, so a State is identified with the index of *)
(* its dict in the heap; two States over the same dict are aliases.        *)
(* A dict is a function from keys to values; its iteration order is taken  *)
(* to be the key order of KeySeq.                                          *)
(***************************************************************************)
EXTENDS Integers, Sequences, FiniteSets

\* ------------------------------------------------------------------ bounds

\* number of dict objects the caller builds by hand before calling the algebra
MaxNodes == 2
\* keys, in their total order
KeySeq == <<"a", "b">>
Keys == {KeySeq[i] : i \in DOMAIN KeySeq}
\* opaque leaf values
Leaves == {1, 2}

VARIABLES
  heap,   \* sequence of dicts: heap[n] is the dict object n
  view,   \* the last State obtained by get(key) or attached by set(key, State)
  call,   \* the last call of the algebra: operation, operands, filters, error
  out,    \* the tuple of States that call returned
  flat,   \* the FlatState the caller holds (the result of flat_state)
  before, \* the call whose results were the operands of `call`
  observe \* whether the caller keeps the State of its last get / set in `view`

vars == <<heap, view, call, out, flat, before, observe>>

\* ------------------------------------------------------------- data model

\* a stored value: a leaf, or a reference to a dict (isinstance(value, Mapping))
Leaf(l) == [kind |-> "leaf", id |-> l]
Sub(n) == [kind |-> "map", id |-> n]

EmptyDict == [k \in {} |-> Leaf(0)]

\* d[k] = v
Put(d, k, v) == [x \in (DOMAIN d) \cup {k} |-> IF x = k THEN v ELSE d[x]]

\* del d[k]
Remove(d, k) == [x \in (DOMAIN d) \ {k} |-> d[x]]

\* iteration over a dict: its keys in order
KeysIn(S) ==
  LET Present(k) == k \in S IN SelectSeq(KeySeq, Present)

DictKeys(d) == KeysIn(DOMAIN d)

Nodes(h) == 1..Len(h)

\* the dicts reachable from dict n (n included)
RECURSIVE Reach(_, _)
Reach(h, n) ==
  {n} \cup UNION {Reach(h, h[n][k].id) : k \in {x \in DOMAIN h[n] : h[n][x].kind = "map"}}

NoCall == [op |-> "none", args |-> <<>>, filters |-> <<>>, err |-> "none", evals |-> {}]
\* view: the State is val, read from (or stored at) parent[key]; live until
\* parent[key] is set or deleted again; touched once val's dict is written to
NoView == [parent |-> 0, key |-> "", val |-> Leaf(0), live |-> FALSE, touched |-> FALSE]

\* ------------------------------------------------------ the mutation API

\* State({}): a new container over a fresh dict
Construct ==
  /\ call.op = "none"
  /\ Len(heap) < MaxNodes
  /\ heap' = Append(heap, EmptyDict)
  /\ UNCHANGED <<view, call, out, flat, before, observe>>

\* State.__init__(mapping, _copy): the State's dict is a shallow copy of the
\* mapping (dict(mapping)), or with _copy=False the mapping itself
StateInit(h, m, copy) ==
  IF copy THEN [heap |-> Append(h, h[m]), node |-> Len(h) + 1]
          ELSE [heap |-> h, node |-> m]

\* getitem as it would be if the view were built with a copying State(value)
getitem_copy(h, n, k) ==
  LET value == h[n][k] IN
    IF value.kind = "map"
    THEN LET s == StateInit(h, value.id, TRUE) IN [heap |-> s.heap, val |-> Sub(s.node)]
    ELSE [heap |-> h, val |-> value]

\* State.__getitem__: the leaf, or a State over the stored dict (no copy)
getitem(h, n, k) ==
  LET value == h[n][k] IN
    IF value.kind = "map"
    THEN LET s == StateInit(h, value.id, FALSE) IN [heap |-> s.heap, val |-> Sub(s.node)]
    ELSE [heap |-> h, val |-> value]

\* the caller reads n[k] and keeps what it got
GetItem(n, k) ==
  /\ call.op = "none"
  /\ observe
  /\ k \in DOMAIN heap[n]
  /\ LET r == getitem(heap, n, k) IN
       /\ heap' = r.heap
       /\ view' = [parent |-> n, key |-> k, live |-> TRUE, touched |-> FALSE,
                   val |-> r.val]
  /\ view' # view
  /\ UNCHANGED <<call, out, flat, before, observe>>

\* the view after a set or delete of n[k]: it is no longer parent[key] once that
\* entry is rebound, and it has been written to when n is its own dict
Unlink(n, k) ==
  [view EXCEPT !.live = @ /\ ~(view.parent = n /\ view.key = k),
               !.touched = @ \/ (view.live /\ view.val = Sub(n))]

\* the heap after State.__setitem__(n, k, leaf)
SetItemLeaf(h, n, k, l) == [h EXCEPT ![n] = Put(@, k, Leaf(l))]

\* the heap after State.__setitem__(n, k, State m): m._mapping stored by reference
SetItemState(h, n, k, m) == [h EXCEPT ![n] = Put(@, k, Sub(m))]

\* the heap after State.__delitem__(n, k)
DelItemHeap(h, n, k) == [h EXCEPT ![n] = Remove(@, k)]

\* State.__setitem__ with a leaf value
SetLeaf(n, k, l) ==
  /\ call.op = "none"
  /\ heap' = SetItemLeaf(heap, n, k, l)
  /\ heap' # heap
  /\ view' = Unlink(n, k)
  /\ UNCHANGED <<call, out, flat, before, observe>>

\* State.__setitem__ with a State value (the caller never builds a cycle)
SetState(n, k, m) ==
  /\ call.op = "none"
  /\ n \notin Reach(heap, m)
  /\ heap' = SetItemState(heap, n, k, m)
  /\ view' = IF observe
             THEN [parent |-> n, key |-> k, live |-> TRUE, touched |-> FALSE,
                   val |-> Sub(m)]
             ELSE view
  /\ <<heap', view'>> # <<heap, view>>
  /\ UNCHANGED <<call, out, flat, before, observe>>

\* State.__delitem__ (a missing key raises KeyError and changes nothing)
DelItem(n, k) ==
  /\ call.op = "none"
  /\ k \in DOMAIN heap[n]
  /\ heap' = DelItemHeap(heap, n, k)
  /\ view' = Unlink(n, k)
  /\ UNCHANGED <<call, out, flat, before, observe>>

\* ------------------------------------------------------ the path flattener

\* the one element of a singleton set
Only(S) == CHOOSE x \in S : TRUE

\* a FlatState is a dict from paths (tuples of keys) to leaves
EmptyFlat == [p \in {} |-> 0]

\* fs.update(gs): the entries of gs override those of fs
Update(fs, gs) ==
  [p \in (DOMAIN fs) \cup (DOMAIN gs) |-> IF p \in DOMAIN gs THEN gs[p] ELSE fs[p]]

\* {k: v for k, v in fs.items() if k in paths}
Restrict(fs, paths) == [p \in (DOMAIN fs) \cap paths |-> fs[p]]

\* the (path, leaf) pairs under dict n, each path prefixed: depth first, one pair
\* per leaf; a dict with no entries contributes nothing
RECURSIVE flatten(_, _, _)
flatten(h, n, prefix) ==
  UNION {LET value == h[n][k]
             path == Append(prefix, k)
         IN  IF value.kind = "leaf" THEN {<<path, value.id>>}
             ELSE flatten(h, value.id, path) : k \in DOMAIN h[n]}

\* traverse_util.flatten_dict
flatten_dict(h, n) ==
  Only({[p \in {e[1] : e \in items} |-> (CHOOSE e \in items : e[1] = p)[2]] :
        items \in {flatten(h, n, <<>>)}})

\* flat_state as it would be if only the top-level leaves were collected
flat_state_top(h, n) ==
  Only({Restrict(fs, {p \in DOMAIN fs : Len(p) = 1}) : fs \in {flatten_dict(h, n)}})

\* State.flat_state
flat_state(h, n) == flatten_dict(h, n)

\* p is a strict prefix of q
StrictPrefix(p, q) == Len(p) < Len(q) /\ SubSeq(q, 1, Len(p)) = p

\* some path of fs is a strict prefix of another: a leaf that is also an ancestor
PrefixConflict(fs) == \E p, q \in DOMAIN fs : StrictPrefix(p, q)

\* the entries of fs under first key k, with k taken off their paths
Under(fs, k) ==
  [q \in {Tail(p) : p \in {x \in DOMAIN fs : Head(x) = k}} |-> fs[<<k>> \o q]]

FirstKeys(fs) == {Head(p) : p \in DOMAIN fs}

\* the nested dicts of a prefix-free FlatState, filled into the fresh dict root:
\* paths are grouped by their first key, one intermediate dict per shared prefix
RECURSIVE unflatten(_, _, _, _)
unflatten(h, fs, root, ks) ==
  IF ks = <<>> THEN [heap |-> h, node |-> root]
  ELSE LET k == Head(ks) IN
         IF <<k>> \in DOMAIN fs
         THEN unflatten([h EXCEPT ![root] = Put(@, k, Leaf(fs[<<k>>]))],
                        fs, root, Tail(ks))
         ELSE Only({unflatten([s.heap EXCEPT ![root] = Put(@, k, Sub(s.node))],
                              fs, root, Tail(ks)) :
                    s \in {unflatten(Append(h, EmptyDict), Under(fs, k), Len(h) + 1,
                                     KeysIn(FirstKeys(Under(fs, k))))}})

\* traverse_util.unflatten_dict: rejects a FlatState with a prefix conflict
unflatten_dict(h, fs) ==
  IF PrefixConflict(fs)
  THEN [heap |-> h, node |-> 0, err |-> "prefix"]
  ELSE Only({[heap |-> r.heap, node |-> r.node, err |-> "none"] :
             r \in {unflatten(Append(h, EmptyDict), fs, Len(h) + 1,
                              KeysIn(FirstKeys(fs)))}})

\* from_flat_path as it would be if a leaf that is also an ancestor were dropped
\* in favour of the leaves below it
from_flat_path_resolving(h, fs) ==
  Only({Only({[heap |-> s.heap, out |-> <<s.node>>, err |-> "none"] :
              s \in {StateInit(nested.heap, nested.node, TRUE)}}) :
        nested \in {unflatten_dict(h,
                      Restrict(fs, {p \in DOMAIN fs :
                                      ~ \E q \in DOMAIN fs : StrictPrefix(p, q)}))}})

\* State.from_flat_path: cls(unflatten_dict(flat_state)); the tuple `out` holds
\* the new State, or nothing when unflatten_dict raised
from_flat_path(h, fs) ==
  Only({IF nested.err # "none"
        THEN [heap |-> nested.heap, out |-> <<>>, err |-> nested.err]
        ELSE Only({[heap |-> s.heap, out |-> <<s.node>>, err |-> "none"] :
                   s \in {StateInit(nested.heap, nested.node, TRUE)}}) :
        nested \in {unflatten_dict(h, fs)}})

\* ------------------------------------------------------- the merge algebra

\* bool(state): a State is truthy when its dict has entries
Truthy(h, n) == DOMAIN h[n] # {}

\* the overlay as it would be if an earlier operand won a path collision
RECURSIVE OverlayFirstWins(_, _, _)
OverlayFirstWins(h, states, i) ==
  IF i = 0 THEN EmptyFlat
  ELSE Only({Update(flat_state(h, states[i]), acc) :
             acc \in {OverlayFirstWins(h, states, i - 1)}})

\* the overlay merge builds from its first i operands:
\* new_state.update(state.flat_state()) in order
RECURSIVE Overlay(_, _, _)
Overlay(h, states, i) ==
  IF i = 0 THEN EmptyFlat
  ELSE Only({Update(acc, flat_state(h, states[i])) :
             acc \in {Overlay(h, states, i - 1)}})

\* merge as it would be if new_state were replaced, not updated, by each operand
merge_last(h, states) ==
  IF Len(states) = 1
  THEN [heap |-> h, out |-> <<states[1]>>, err |-> "none"]
  ELSE from_flat_path(h, flat_state(h, states[Len(states)]))

\* State.merge
merge(h, states) ==
  IF Len(states) = 1
  THEN [heap |-> h, out |-> <<states[1]>>, err |-> "none"]
  ELSE from_flat_path(h, Overlay(h, states, Len(states)))

\* State.__or__
or(h, self, other) ==
  IF ~Truthy(h, other)
  THEN [heap |-> h, out |-> <<self>>, err |-> "none"]
  ELSE merge(h, <<self, other>>)

\* __sub__ as it would be if a path were removed only when the leaves agree too
sub_equal_leaves(h, self, other) ==
  IF ~Truthy(h, other)
  THEN [heap |-> h, out |-> <<self>>, err |-> "none"]
  ELSE LET self_flat == flat_state(h, self)
           other_flat == flat_state(h, other)
       IN  from_flat_path(h, Restrict(self_flat,
             {p \in DOMAIN self_flat :
                ~(p \in DOMAIN other_flat /\ other_flat[p] = self_flat[p])}))

\* __sub__ as it would be if it returned self whenever nothing is removed
sub_shortcut(h, self, other) ==
  LET self_flat == flat_state(h, self)
      other_flat == flat_state(h, other)
  IN  IF (DOMAIN self_flat) \cap (DOMAIN other_flat) = {}
      THEN [heap |-> h, out |-> <<self>>, err |-> "none"]
      ELSE from_flat_path(h, Restrict(self_flat, (DOMAIN self_flat) \ (DOMAIN other_flat)))

\* State.__sub__
sub(h, self, other) ==
  IF ~Truthy(h, other)
  THEN [heap |-> h, out |-> <<self>>, err |-> "none"]
  ELSE LET self_flat == flat_state(h, self)
           other_flat == flat_state(h, other)
       IN  from_flat_path(h, Restrict(self_flat, (DOMAIN self_flat) \ (DOMAIN other_flat)))

\* --------------------------------------------------- the filter engine

\* the filters callers pass: the wildcard `...`, and two predicates
\* (path, leaf) -> bool: "the path starts with key a", "the leaf is leaf 1"
Filters == {"...", "under_a", "is_1"}

\* filter_ in (..., True)
IsWildcard(f) == f \in {"...", "True"}

\* filterlib.to_predicate(f)(path, leaf)
Predicate(f, path, leaf) ==
  CASE IsWildcard(f) -> TRUE
    [] f = "under_a" -> Head(path) = "a"
    [] f = "is_1" -> leaf = 1

\* the filter lists callers pass: every list of one or two filters, and
\* lists of three with a wildcard in each position
FilterLists ==
  {<<f>> : f \in Filters} \cup {<<f, g>> : f, g \in Filters}
    \cup {<<"under_a", "is_1", "...">>, <<"under_a", "...", "...">>,
          <<"...", "is_1", "...">>, <<"is_1", "under_a", "is_1">>}

\* the check as it would be if every wildcard before the last filter were refused
OrderingStrict(filters) ==
  \E i \in DOMAIN filters : IsWildcard(filters[i]) /\ i # Len(filters)

\* the check that opens _split_state: a wildcard before a filter that is not one
OrderingError(filters) ==
  \E i \in DOMAIN filters :
    /\ IsWildcard(filters[i])
    /\ i # Len(filters)
    /\ ~ \A j \in (i + 1)..Len(filters) : IsWildcard(filters[j])

\* the filters that match the entry (path, leaf)
Matching(filters, path, leaf) ==
  {i \in DOMAIN filters : Predicate(filters[i], path, leaf)}

Min(S) == CHOOSE x \in S : \A y \in S : x <= y

Max(S) == CHOOSE x \in S : \A y \in S : x >= y

\* the bucket as it would be if the loop over the predicates did not break
BucketLast(filters, path, leaf) ==
  IF Matching(filters, path, leaf) = {} THEN Len(filters) + 1
  ELSE Max(Matching(filters, path, leaf))

\* the index of the flat state an entry goes to: the first filter that matches,
\* else the extra last one
Bucket(filters, path, leaf) ==
  IF Matching(filters, path, leaf) = {} THEN Len(filters) + 1
  ELSE Min(Matching(filters, path, leaf))

\* the (filter, path) pairs for which a predicate is called: for each entry the
\* filters up to its first match
Evaluations(filters, fs) ==
  {<<i, p>> \in (DOMAIN filters) \X (DOMAIN fs) : i <= Bucket(filters, p, fs[p])}

\* flat_states[i] once the loop over flat_state.items() is done
FlatStates(filters, fs, i) ==
  Restrict(fs, {p \in DOMAIN fs : Bucket(filters, p, fs[p]) = i})

\* tuple(State.from_flat_path(flat_state) for flat_state in flat_states), up to i
RECURSIVE FromFlatStates(_, _, _, _)
FromFlatStates(h, filters, fs, i) ==
  IF i = 0 THEN [heap |-> h, out |-> <<>>, err |-> "none"]
  ELSE Only({IF prev.err # "none" THEN prev
             ELSE Only({[heap |-> r.heap, out |-> prev.out \o r.out, err |-> r.err] :
                        r \in {from_flat_path(prev.heap, FlatStates(filters, fs, i))}}) :
             prev \in {FromFlatStates(h, filters, fs, i - 1)}})

\* _split_state: n + 1 States, the last for what no filter matched
split_state(h, n, filters) ==
  IF OrderingError(filters)
  THEN [heap |-> h, out |-> <<>>, err |-> "ordering", evals |-> {}]
  ELSE Only({Only({[heap |-> r.heap, out |-> IF r.err = "none" THEN r.out ELSE <<>>,
                    err |-> r.err, evals |-> Evaluations(filters, fs)] :
                   r \in {FromFlatStates(h, filters, fs, Len(filters) + 1)}}) :
             fs \in {flat_state(h, n)}})

\* all but the last
Front(s) == SubSeq(s, 1, Len(s) - 1)

\* split as it would be without the check of the remainder
split_unchecked(h, n, filters) ==
  Only({IF r.err # "none" THEN r ELSE [r EXCEPT !.out = Front(r.out)] :
        r \in {split_state(h, n, filters)}})

\* State.split (a single State is returned as a tuple of one)
split(h, n, filters) ==
  Only({IF r.err # "none" THEN r
        ELSE IF Truthy(r.heap, r.out[Len(r.out)])
             THEN [r EXCEPT !.out = <<>>, !.err = "nonexhaustive"]
             ELSE [r EXCEPT !.out = Front(r.out)] :
        r \in {split_state(h, n, filters)}})

\* State.filter (a single State is returned as a tuple of one)
filter(h, n, filters) ==
  Only({IF r.err # "none" THEN r ELSE [r EXCEPT !.out = Front(r.out)] :
        r \in {split_state(h, n, filters)}})

\* ------------------------------------------------------------ the callers

Called(op, args, filters, r, evals) ==
  /\ heap' = r.heap
  /\ out' = r.out
  /\ call' = [op |-> op, args |-> args, filters |-> filters, err |-> r.err,
              evals |-> evals]
  /\ UNCHANGED <<view, observe>>

\* lists of one or two of the States the caller holds
StateLists(h) == {<<a>> : a \in Nodes(h)} \cup {<<a, b>> : a, b \in Nodes(h)}

\* the orders in which a tuple of States can be passed on
Orders(s) ==
  {[i \in DOMAIN s |-> s[f[i]]] :
     f \in {g \in [DOMAIN s -> DOMAIN s] : \A i, j \in DOMAIN s : g[i] = g[j] => i = j}}

\* s.flat_state()
FlatState(n) ==
  /\ call.op = "none"
  /\ flat' = flat_state(heap, n)
  /\ call' = [NoCall EXCEPT !.op = "flat_state", !.args = <<n>>]
  /\ UNCHANGED <<heap, view, out, before, observe>>

\* State.from_flat_path(flat) on the FlatState the caller holds
FromFlatPath ==
  /\ call.op = "flat_state"
  /\ \E r \in {from_flat_path(heap, flat)} :
       Called("from_flat_path", call.args, <<>>, r, {})
  /\ before' = call
  /\ UNCHANGED flat

\* s.split(*filters) on the State the caller built first
Split(filters) ==
  /\ call.op = "none"
  /\ \E r \in {split(heap, 1, filters)} : Called("split", <<1>>, filters, r, r.evals)
  /\ UNCHANGED <<flat, before>>

\* s.filter(*filters) on the State the caller built first
Filter(filters) ==
  /\ call.op = "none"
  /\ \E r \in {filter(heap, 1, filters)} : Called("filter", <<1>>, filters, r, r.evals)
  /\ UNCHANGED <<flat, before>>

\* State.merge(*states), on States the caller built
Merge(states) ==
  /\ call.op = "none"
  /\ \E r \in {merge(heap, states)} : Called("merge", states, <<>>, r, {})
  /\ UNCHANGED <<flat, before>>

\* State.merge(*states), on the States a split returned, passed in any order
MergeOut(states) ==
  /\ call.op = "split"
  /\ call.err = "none"
  /\ states \in Orders(out)
  /\ \E r \in {merge(heap, states)} : Called("merge", states, <<>>, r, {})
  /\ before' = call
  /\ UNCHANGED flat

\* a | b
Or(a, b) ==
  /\ call.op = "none"
  /\ \E r \in {or(heap, a, b)} : Called("or", <<a, b>>, <<>>, r, {})
  /\ UNCHANGED <<flat, before>>

\* a - b
Sub_(a, b) ==
  /\ call.op = "none"
  /\ \E r \in {sub(heap, a, b)} : Called("sub", <<a, b>>, <<>>, r, {})
  /\ UNCHANGED <<flat, before>>

Mutate ==
  \E n \in Nodes(heap), k \in Keys :
    \/ \E l \in Leaves : SetLeaf(n, k, l)
    \/ \E m \in Nodes(heap) : SetState(n, k, m)
    \/ DelItem(n, k)

InitCommon ==
  /\ heap = <<EmptyDict>>
  /\ view = NoView
  /\ call = NoCall
  /\ out = <<>>
  /\ flat = EmptyFlat
  /\ before = NoCall

Init == InitCommon /\ observe = FALSE

\* flatten / unflatten and the merge algebra over the States the caller built
Next ==
  \/ Construct
  \/ Mutate
  \/ \E n \in Nodes(heap) : FlatState(n)
  \/ FromFlatPath
  \/ \E states \in StateLists(heap) : Merge(states)
  \/ \E a, b \in Nodes(heap) : Or(a, b)
  \/ \E a, b \in Nodes(heap) : Sub_(a, b)

Spec == Init /\ [][Next]_vars

\* the filter engine, and merge over what split returned
NextSplit ==
  \/ Construct
  \/ Mutate
  \/ \E filters \in FilterLists : Split(filters)
  \/ \E filters \in FilterLists : Filter(filters)
  \/ \E states \in Orders(out) : MergeOut(states)

SpecSplit == Init /\ [][NextSplit]_vars

\* every operation that returns States, on the States the caller built
NextNew ==
  \/ Construct
  \/ Mutate
  \/ \E states \in StateLists(heap) : Merge(states)
  \/ \E a, b \in Nodes(heap) : Or(a, b)
  \/ \E a, b \in Nodes(heap) : Sub_(a, b)
  \/ \E filters \in FilterLists : Split(filters)
  \/ \E filters \in FilterLists : Filter(filters)

SpecNew == Init /\ [][NextNew]_vars

\* the mutation API alone, the caller keeping the State it got or attached
InitView == InitCommon /\ observe = TRUE

NextView ==
  \/ Construct
  \/ Mutate
  \/ \E n \in Nodes(heap), k \in Keys : GetItem(n, k)

SpecView == InitView /\ [][NextView]_vars

\* ---------------------------------------------------------------- properties

\* the dicts under a and under b hold the same keys at every level and the same
\* leaf at every path
RECURSIVE SameTree(_, _, _)
SameTree(h, a, b) ==
  /\ DOMAIN h[a] = DOMAIN h[b]
  /\ \A k \in DOMAIN h[a] :
       /\ h[a][k].kind = h[b][k].kind
       /\ IF h[a][k].kind = "leaf" THEN h[a][k].id = h[b][k].id
          ELSE SameTree(h, h[a][k].id, h[b][k].id)

\* no dict below n is empty
NoEmptySub(h, n) == \A m \in Reach(h, n) \ {n} : DOMAIN h[m] # {}

\* some value stored in dict n is a dict
Nested(h, n) == \E k \in DOMAIN h[n] : h[n][k].kind = "map"

Last(s) == s[Len(s)]

\* the dicts reachable from the States of a tuple
ReachAll(h, states) == UNION {Reach(h, states[i]) : i \in DOMAIN states}

\* the leaf paths of the States of a tuple, taken together
PathsOf(h, states) == UNION {DOMAIN flat_state(h, states[i]) : i \in DOMAIN states}

PrefixFree(paths) == ~ \E p, q \in paths : StrictPrefix(p, q)

\* the filters of the list that are the first, in list order, to be true of the
\* entry (path, leaf): one index, or none
FirstTrue(filters, path, leaf) ==
  {i \in DOMAIN filters :
     /\ Predicate(filters[i], path, leaf)
     /\ \A j \in 1..(i - 1) : ~Predicate(filters[j], path, leaf)}

\* State out[i] holds exactly the entries of c that filter i is the first to match
FirstMatched(i) ==
  LET c == flat_state(heap, call.args[1])
      fi == flat_state(heap, out[i])
  IN  /\ DOMAIN fi = {p \in DOMAIN c : i \in FirstTrue(call.filters, p, c[p])}
      /\ \A p \in DOMAIN fi : fi[p] = c[p]

\* the leaf paths of the operand that no filter matches
Unmatched ==
  LET c == flat_state(heap, call.args[1]) IN
    {p \in DOMAIN c : FirstTrue(call.filters, p, c[p]) = {}}

\* C1 as claimed: State.from_flat_path(c.flat_state()) is structurally equal to
\* c for every container c, sub-containers with no entries included.
C1_RoundTripAny ==
  call.op = "from_flat_path" =>
    /\ call.err = "none"
    /\ Len(out) = 1
    /\ SameTree(heap, call.args[1], out[1])

\* C1 amended: State.from_flat_path(c.flat_state()) is structurally equal to c
\* for every container c none of whose sub-containers is empty.
C1_RoundTrip ==
  (call.op = "from_flat_path" /\ NoEmptySub(heap, call.args[1])) =>
    /\ call.err = "none"
    /\ Len(out) = 1
    /\ SameTree(heap, call.args[1], out[1])

\* a nested container with leaves below its sub-container went round the trip
C1_Witness ==
  /\ call.op = "from_flat_path"
  /\ Nested(heap, call.args[1])
  /\ NoEmptySub(heap, call.args[1])
  /\ \E p \in DOMAIN flat : Len(p) = 2

\* C2: split with filters f1..fn ending in a wildcard returns n States, and each
\* (path, leaf) of the operand is, with the same leaf, in exactly the State at
\* the index of the first filter true of it; the leaf sets are pairwise disjoint
\* and their sizes sum to the number of leaves.
C2_FirstMatchPartition ==
  (call.op = "split" /\ call.err # "ordering" /\ IsWildcard(Last(call.filters))) =>
    /\ call.err = "none"
    /\ Len(out) = Len(call.filters)
    /\ \A i \in DOMAIN out : FirstMatched(i)
    /\ \A i, j \in DOMAIN out :
         i # j => (DOMAIN flat_state(heap, out[i])) \cap (DOMAIN flat_state(heap, out[j])) = {}
    /\ PathsOf(heap, out) = DOMAIN flat_state(heap, call.args[1])

\* a leaf that two filters match went to the first, and the wildcard got a leaf
C2_Witness ==
  /\ call.op = "split"
  /\ call.filters = <<"under_a", "is_1", "...">>
  /\ call.err = "none"
  /\ \E p \in DOMAIN flat_state(heap, out[1]) : flat_state(heap, out[1])[p] = 1
  /\ DOMAIN flat_state(heap, out[3]) # {}

\* C3: split raises the non-exhaustive error, returning nothing, exactly when
\* some leaf is matched by no filter; filter with a valid filter list never
\* raises it and returns one State per filter holding the leaves that filter is
\* the first to match, the unmatched leaves being in none of them.
C3_NonExhaustive ==
  /\ (call.op = "split" /\ call.err # "ordering") =>
       /\ (call.err = "nonexhaustive") <=> (Unmatched # {})
       /\ call.err = "nonexhaustive" => out = <<>>
       /\ call.err \in {"none", "nonexhaustive"}
  /\ (call.op = "filter" /\ call.err # "ordering") =>
       /\ call.err = "none"
       /\ Len(out) = Len(call.filters)
       /\ \A i \in DOMAIN out : FirstMatched(i)
       /\ PathsOf(heap, out) \cap Unmatched = {}

\* split refused a filter list that matches some leaves and leaves others out
C3_Witness ==
  /\ call.op = "split"
  /\ call.err = "nonexhaustive"
  /\ Unmatched # {}
  /\ Unmatched # DOMAIN flat_state(heap, call.args[1])

\* a wildcard stands before the last filter
WildcardNotLast(filters) ==
  \E i \in DOMAIN filters : IsWildcard(filters[i]) /\ i < Len(filters)

\* a wildcard stands before a filter that is not a wildcard
WildcardBeforeOther(filters) ==
  \E i, j \in DOMAIN filters :
    i < j /\ IsWildcard(filters[i]) /\ ~IsWildcard(filters[j])

\* C4 as claimed: split and filter refuse, with the ordering error, every filter
\* list in which a wildcard stands at an index other than the last.
C4_AnyEarlyWildcardRefused ==
  call.op \in {"split", "filter"} =>
    ((call.err = "ordering") <=> WildcardNotLast(call.filters))

\* C4 amended: split and filter refuse a filter list, with the ordering error,
\* before any predicate is evaluated and without returning a State, exactly when
\* a wildcard stands before a filter that is not a wildcard; wildcards that
\* close the list, one or several, are accepted.
C4_WildcardOrdering ==
  call.op \in {"split", "filter"} =>
    /\ (call.err = "ordering") <=> WildcardBeforeOther(call.filters)
    /\ call.err = "ordering" => (out = <<>> /\ call.evals = {})
    /\ (call.err # "ordering" /\ flat_state(heap, call.args[1]) # EmptyFlat)
         => call.evals # {}

\* a list whose last filter is a wildcard was refused for an earlier wildcard
C4_Witness ==
  /\ call.op = "split"
  /\ call.filters = <<"...", "is_1", "...">>
  /\ call.err = "ordering"
  /\ flat_state(heap, call.args[1]) # EmptyFlat

\* the last operand of the call that holds path p
LastHolder(p) ==
  Max({i \in DOMAIN call.args : p \in DOMAIN flat_state(heap, call.args[i])})

\* C5: for operands whose leaf paths taken together are prefix-free, the paths
\* of merge(s1..sn) are the union of the operands' paths, each with the leaf of
\* the last operand that holds it; merge of one operand is that operand.
C5_MergeLastWins ==
  (call.op = "merge" /\ PrefixFree(PathsOf(heap, call.args))) =>
    /\ call.err = "none"
    /\ Len(out) = 1
    /\ LET r == flat_state(heap, out[1]) IN
         /\ DOMAIN r = PathsOf(heap, call.args)
         /\ \A p \in DOMAIN r :
              r[p] = flat_state(heap, call.args[LastHolder(p)])[p]
    /\ Len(call.args) = 1 => SameTree(heap, call.args[1], out[1])

\* two operands held different leaves at one path, and each a path of its own
C5_Witness ==
  /\ call.op = "merge"
  /\ Len(call.args) = 2
  /\ call.err = "none"
  /\ LET a == flat_state(heap, call.args[1])
         b == flat_state(heap, call.args[2])
     IN  /\ \E p \in (DOMAIN a) \cap (DOMAIN b) : a[p] # b[p]
         /\ \E p \in DOMAIN a : Len(p) = 2

\* C6: the entries of a - b are the entries of a whose path is not a path of b,
\* each with a's leaf, whatever leaves b holds.
C6_DifferenceByPath ==
  call.op = "sub" =>
    /\ call.err = "none"
    /\ Len(out) = 1
    /\ LET a == flat_state(heap, call.args[1])
           b == flat_state(heap, call.args[2])
           r == flat_state(heap, out[1])
       IN  /\ DOMAIN r = (DOMAIN a) \ (DOMAIN b)
           /\ \A p \in DOMAIN r : r[p] = a[p]

\* b held another leaf at a path of a, which went, and only a prefix of another
\* path of a, which stayed
C6_Witness ==
  /\ call.op = "sub"
  /\ LET a == flat_state(heap, call.args[1])
         b == flat_state(heap, call.args[2])
         r == flat_state(heap, out[1])
     IN  /\ \E p \in (DOMAIN a) \cap (DOMAIN b) : a[p] # b[p] /\ p \notin DOMAIN r
         /\ \E p \in DOMAIN a, q \in DOMAIN b : StrictPrefix(q, p) /\ p \in DOMAIN r

\* what is read through the parent at the view's key is what is read through
\* the view
Aliased ==
  /\ view.key \in DOMAIN heap[view.parent]
  /\ heap[view.parent][view.key].kind = "map"
  /\ SameTree(heap, heap[view.parent][view.key].id, view.val.id)

\* C7 as claimed: after any sets and deletes through the parent or through the
\* State got from (or stored at) parent[key], both read the same contents.
C7_AliasedForEver ==
  (view.parent # 0 /\ view.val.kind = "map") => Aliased

\* C7 amended: the State got from, or stored at, parent[key] reads the same
\* contents as the parent at key after any sets and deletes on either side, for
\* as long as parent[key] itself has not been set or deleted again.
C7_ViewAliasing ==
  (view.parent # 0 /\ view.val.kind = "map" /\ view.live) => Aliased

\* the view's dict was written to while it was the parent's entry, and holds
\* something
C7_Witness ==
  /\ view.parent # 0
  /\ view.val.kind = "map"
  /\ view.live
  /\ view.touched
  /\ DOMAIN heap[view.val.id] # {}

\* the calls that build their result from a FlatState
BuildsResult ==
  CASE call.op = "merge" -> Len(call.args) >= 2
    [] call.op \in {"or", "sub"} -> Truthy(heap, call.args[2])
    [] call.op \in {"split", "filter"} -> TRUE
    [] OTHER -> FALSE

ReturnsStates ==
  call.op \in {"merge", "or", "sub", "split", "filter"} /\ call.err = "none"

\* C8 as claimed: every State returned by split, filter, merge, union or
\* difference shares no dict with any operand, for every operand count and also
\* when an operand is empty.
C8_AlwaysNew ==
  ReturnsStates => ReachAll(heap, out) \cap ReachAll(heap, call.args) = {}

\* C8 amended: the States returned by split, by filter, by merge of two or more
\* operands and by union or difference with a second operand that has entries
\* share no dict with any operand, so a set or delete on either side is not seen
\* on the other; merge of one operand, and union or difference with a second
\* operand that has no entries, return the first operand itself.
C8_NewUnlessIdentity ==
  ReturnsStates =>
    IF BuildsResult
    THEN ReachAll(heap, out) \cap ReachAll(heap, call.args) = {}
    ELSE out = <<call.args[1]>>

\* a difference that removed nothing from a nested operand returned a new State
C8_Witness ==
  /\ call.op = "sub"
  /\ BuildsResult
  /\ call.err = "none"
  /\ Nested(heap, call.args[1])
  /\ SameTree(heap, call.args[1], out[1])

C10_SplitThenMerge ==
  (/\ call.op = "merge"
   /\ before.op = "split"
   /\ Len(before.filters) >= 2
   /\ IsWildcard(Last(before.filters))
   /\ NoEmptySub(heap, before.args[1])) =>
    /\ call.err = "none"
    /\ Len(out) = 1
    /\ SameTree(heap, before.args[1], out[1])

\* three States, two of them with leaves, one nested, were merged back to front
C10_Witness ==
  /\ call.op = "merge"
  /\ before.op = "split"
  /\ before.filters = <<"under_a", "is_1", "...">>
  /\ NoEmptySub(heap, before.args[1])
  /\ Nested(heap, before.args[1])
  /\ Truthy(heap, call.args[1])
  /\ Truthy(heap, call.args[3])
  /\ call.args[1] > call.args[3]

=============================================================================
